---- MODULE Spec2Model ----
(***************************************************************************)
(* TouristHubClient (docs/api-client-examples/python/basic_client.py):     *)
(* the session credentials, the authenticated-request routine              *)
(* _make_request with its refresh-and-retry recovery, and login,           *)
(* refresh_access_token and logout, which all call _make_request.          *)
(*                                                                         *)
(* The Python call stack is modelled explicitly: every frame is a record   *)
(* holding the function, the position in it and its locals.  One action    *)
(* is one stretch of code between two calls or network exchanges.  The     *)
(* server is opaque: each exchange draws its answer from Answers(ep).      *)
(* The workflows of tourist_workflow.py and provider_admin_workflow.py     *)
(* that the properties are about run on the same client.                   *)
(***************************************************************************)
EXTENDS Integers, Sequences, FiniteSets, TLC

VARIABLES
    access_token,   \* self.access_token
    refresh_token,  \* self.refresh_token
    user,           \* self.user
    stack,          \* the call stack, innermost frame last
    ret,            \* what the frame that returned last handed to its caller
    op,             \* the public operation in progress (or finished last)
    cnt,            \* requests sent per endpoint since the operation began
    lastReq,        \* the request sent last, with the session at that moment
    server          \* which success responses the server of this run gives

vars == <<access_token, refresh_token, user, stack, ret, op, cnt, lastReq, server>>

-----------------------------------------------------------------------------
(* Bounds of the exploration *)

\* Network exchanges explored per public operation.  The code itself sets no
\* limit: refresh_access_token and logout send their requests through
\* _make_request, whose 401 handling calls them again, so a server that keeps
\* answering 401 drives the recursion on.  A send is enabled only below this
\* bound; an operation that reaches it is left unfinished.
MaxExchanges == 5

\* longest list of user ids given to bulk_approve_registrations
MaxBulk == 2

\* longest list of activities given to create_tour_schedule
MaxActivities == 2

-----------------------------------------------------------------------------
(* Values *)

None == "None"          \* Python None
Missing == "Missing"    \* a key the JSON object does not have

\* the tokens the server issues: non-empty strings (section 6 of the API
\* description); a response may lack a key, it does not carry null tokens
AccessTokens == {"A1", "A2"}
RefreshTokens == {"R1", "R2"}
\* user records, named by their userId; "U3" has no firstName/lastName/userType
Users == {"U1", "U2", "U3"}
UsersWithoutName == {"U3"}

Endpoints == {"resource", "login", "refresh", "logout", "upload",
              "event", "register", "registration", "signup", "profile", "activity"}

\* the status that starts the token refresh (line 74)
Unauthorized == 401
\* the statuses the server answers with in this model
Statuses == {200, Unauthorized, 403, 500}

\* response.raise_for_status(): HTTPError for 4xx and 5xx
RaisesForStatus(status) == status >= 400 /\ status < 600

\* Python truthiness of an Optional[str] holding a non-empty string or None
Truthy(v) == v # None

-----------------------------------------------------------------------------
(* Responses of the server *)

\* {}: no key at all (remainingTourists is read only where status is present)
EmptyPayload ==
    [accessToken |-> Missing, refreshToken |-> Missing, user |-> Missing,
     data |-> Missing, status |-> Missing, remainingTourists |-> 0]

\* the JSON objects a 2xx answer of endpoint ep may carry
Payloads(ep) ==
    CASE ep = "login" ->
            [accessToken : AccessTokens \cup {Missing},
             refreshToken : RefreshTokens \cup {Missing},
             user : Users \cup {Missing},
             data : {Missing}, status : {Missing}, remainingTourists : {0}]
      [] ep = "refresh" ->
            [accessToken : AccessTokens \cup {Missing},
             refreshToken : RefreshTokens \cup {Missing},
             user : {Missing},
             data : {Missing}, status : {Missing}, remainingTourists : {0}]
      [] ep = "logout" -> {EmptyPayload}
      \* a tour event with customTourName, remainingTourists and status, or {}
      [] ep = "event" ->
            [accessToken : {Missing}, refreshToken : {Missing}, user : {Missing},
             data : {"D1"}, status : {"Active", "Cancelled"},
             remainingTourists : {0, 1}]
            \cup {EmptyPayload}
      \* a registration with its status, or {}
      [] ep = "register" ->
            [accessToken : {Missing}, refreshToken : {Missing}, user : {Missing},
             data : {"D1"}, status : {"Pending", "Approved"},
             remainingTourists : {0}]
            \cup {EmptyPayload}
      [] OTHER ->
            [accessToken : {Missing}, refreshToken : {Missing},
             user : {Missing}, data : {"D1", Missing},
             status : {Missing}, remainingTourists : {0}]

NoResp == [t |-> "none", status |-> 0, payload |-> EmptyPayload]

\* t = "http": a response with a status; "badjson": a 2xx response whose body
\* does not decode; "transport": session.request raised, there is no response
Responses(ep) ==
    [t : {"http"}, status : {st \in Statuses : ~RaisesForStatus(st)},
     payload : Payloads(ep)]
    \cup [t : {"http"}, status : {st \in Statuses : RaisesForStatus(st)},
          payload : {EmptyPayload}]
    \cup [t : {"badjson"}, status : {200}, payload : {EmptyPayload}]
    \cup [t : {"transport"}, status : {0}, payload : {EmptyPayload}]

\* whether a 2xx answer of endpoint ep carries every documented field: the
\* tokens and a user record with its name for login, the token pair for
\* refresh, the tour event and the registration with their fields
Complete(ep, payload) ==
    CASE ep = "login" ->
            /\ ~(Missing \in {payload.accessToken, payload.refreshToken, payload.user})
            /\ payload.user \notin UsersWithoutName
      [] ep = "refresh" ->
            ~(Missing \in {payload.accessToken, payload.refreshToken})
      [] ep \in {"event", "register"} -> payload.status # Missing
      [] OTHER -> TRUE

\* what the server of this run may answer on endpoint ep; server is "any":
\* every response above, or "documented": the 2xx answers that decode carry
\* every documented field
Answers(ep) ==
    IF server = "any" THEN Responses(ep)
    ELSE {r \in Responses(ep) :
            r.t = "http" /\ ~RaisesForStatus(r.status) => Complete(ep, r.payload)}

-----------------------------------------------------------------------------
(* Exceptions *)

NoErr == [type |-> "none", status |-> 0, ep |-> "none", attempt |-> 0]

\* an exception object; ep and attempt say which exchange raised it
Err(type, status, ep, attempt) ==
    [type |-> type, status |-> status, ep |-> ep, attempt |-> attempt]

\* results of a call: a returned payload or a raised exception
Returned(p) == [kind |-> "ok", payload |-> p, err |-> NoErr]
Raised(e) == [kind |-> "exc", payload |-> EmptyPayload, err |-> e]

-----------------------------------------------------------------------------
(* Headers: Python dicts as functions from header names to values *)

NoHeaders == [k \in {} |-> None]
Bearer(token) == <<"Bearer", token>>

DictUpdate(h, g) ==
    [k \in DOMAIN h \cup DOMAIN g |-> IF k \in DOMAIN g THEN g[k] ELSE h[k]]

\* del h[k]
DictDel(h, k) == [x \in DOMAIN h \ {k} |-> h[x]]

\* lines 30-33: the default headers of self.session
SessionHeaders ==
    [k \in {"Content-Type", "Accept"} |-> "application/json"]

\* self.session sends a request with its default headers overlaid by the
\* headers of the call
MergeHeaders(session, request) == DictUpdate(session, request)

\* _get_headers with self.access_token = token
GetHeaders(token) ==
    IF Truthy(token) THEN [k \in {"Authorization"} |-> Bearer(token)] ELSE NoHeaders

\* session.request followed by _handle_response, for the exchange number
\* attempt of a _make_request call on endpoint ep
HandleResponse(resp, ep, attempt) ==
    CASE resp.t = "transport" -> Raised(Err("ConnectionError", 0, ep, attempt))
      [] resp.t = "badjson" -> Raised(Err("JSONDecodeError", resp.status, ep, attempt))
      [] OTHER ->
            IF RaisesForStatus(resp.status)
            THEN Raised(Err("HTTPError", resp.status, ep, attempt))
            ELSE Returned(resp.payload)

\* the first except clause of _make_request catches HTTPError only
IsHTTPError(e) == e.type = "HTTPError"

\* variant: any error status starts the recovery
WantsRefreshAnyStatus(e, rtoken) == Truthy(rtoken)
\* variant: a 401 starts the recovery whether or not a refresh token is held
WantsRefreshAnyToken(e, rtoken) == e.status = Unauthorized

\* line 74: a 401 while a refresh token is held
WantsRefresh(e, rtoken) == e.status = Unauthorized /\ Truthy(rtoken)

-----------------------------------------------------------------------------
(* Call stack *)

Frame(fn, pc, method, ep) ==
    [fn |-> fn, pc |-> pc, method |-> method, ep |-> ep,
     headers |-> NoHeaders, body |-> None, path |-> None,
     first |-> NoResp, retry |-> NoResp, held |-> FALSE,
     called |-> "none", calledErr |-> NoErr, calledPayload |-> EmptyPayload,
     err |-> NoErr, loggedOut |-> FALSE,
     todo |-> <<>>, results |-> <<>>, done |-> <<>>, attempts |-> <<>>]

NoFrame == Frame("none", "none", "none", "none")
NoRet == [kind |-> "none", payload |-> EmptyPayload, err |-> NoErr, fr |-> NoFrame]

Idle == stack = <<>>
Top == stack[Len(stack)]
Caller == SubSeq(stack, 1, Len(stack) - 1)
At(fn, pc) == ~Idle /\ Top.fn = fn /\ Top.pc = pc

\* the top frame becomes f and calls g
Call(f, g) == Append(Caller, f) \o <<g>>

\* the top frame, in its final form f, ends with result r
Return(f, r) ==
    /\ stack' = Caller
    /\ ret' = [kind |-> r.kind, payload |-> r.payload, err |-> r.err, fr |-> f]

Sent ==
    cnt["resource"] + cnt["login"] + cnt["refresh"] + cnt["logout"] + cnt["upload"]
    + cnt["event"] + cnt["register"] + cnt["registration"]
    + cnt["signup"] + cnt["profile"] + cnt["activity"]

\* one request goes out: it is counted and remembered
Send(method, ep, headers, body) ==
    /\ cnt' = [cnt EXCEPT ![ep] = @ + 1]
    /\ lastReq' = [ep |-> ep, method |-> method, headers |-> headers, body |-> body,
                   effective |-> MergeHeaders(SessionHeaders, headers),
                   path |-> Top.path,
                   access |-> access_token, refresh |-> refresh_token]

NoReq == [ep |-> "none", method |-> "none", headers |-> NoHeaders, body |-> None,
          effective |-> NoHeaders, path |-> None, access |-> None, refresh |-> None]

Session == [access |-> access_token, refresh |-> refresh_token, user |-> user]

\* some frame of the stack is a logout() call
InLogout == \E i \in 1..Len(stack) : stack[i].fn = "logout"

\* a request call of the client ends with result r: the operation remembers
\* that one raised, unless it was made inside logout()
Noting(r) ==
    op' = [op EXCEPT !.requestFailed = @ \/ (r.kind = "exc" /\ ~InLogout)]

\* a public operation begins: the bookkeeping starts afresh
Begin(name) ==
    /\ Idle
    /\ op' = [name |-> name, pre |-> Session, refreshFailed |-> FALSE,
              requestFailed |-> FALSE]
    /\ cnt' = [e \in Endpoints |-> 0]
    /\ lastReq' = NoReq
    /\ ret' = NoRet
    /\ UNCHANGED server

-----------------------------------------------------------------------------
(* __init__ *)

Init ==
    /\ access_token = None
    /\ refresh_token = None
    /\ user = None
    /\ stack = <<>>
    /\ ret = NoRet
    /\ op = [name |-> "none", pre |-> [access |-> None, refresh |-> None, user |-> None],
             refreshFailed |-> FALSE, requestFailed |-> FALSE]
    /\ cnt = [e \in Endpoints |-> 0]
    /\ lastReq = NoReq
    /\ server = "any"

-----------------------------------------------------------------------------
(* The caller invokes a public operation *)

VerbCall(name, method) ==
    /\ Begin(name)
    /\ stack' = <<Frame("make_request", "request", method, "resource")>>
    /\ UNCHANGED <<access_token, refresh_token, user>>

get == VerbCall("get", "GET")
post == VerbCall("post", "POST")
put == VerbCall("put", "PUT")
delete == VerbCall("delete", "DELETE")

login_call ==
    /\ Begin("login")
    /\ stack' = <<Frame("login", "request", "POST", "login")>>
    /\ UNCHANGED <<access_token, refresh_token, user>>

refresh_access_token_call ==
    /\ Begin("refresh_access_token")
    /\ stack' = <<Frame("refresh_access_token", "check", "POST", "refresh")>>
    /\ UNCHANGED <<access_token, refresh_token, user>>

logout_call ==
    /\ Begin("logout")
    /\ stack' = <<Frame("logout", "check", "POST", "logout")>>
    /\ UNCHANGED <<access_token, refresh_token, user>>

-----------------------------------------------------------------------------
(* _make_request *)

\* the frame of a _make_request(method, endpoint, json=body) call
MakeRequestFrame(method, ep, body) ==
    [Frame("make_request", "request", method, ep) EXCEPT !.body = body]

\* variant: the request is sent again with the headers of the first attempt
RetryHeadersStale(headers, token) == headers

\* lines 79-81: the headers of the request sent again after the refresh
RetryHeaders(headers, token) == DictUpdate(headers, GetHeaders(token))

\* variant: the except clause raises without calling logout()
LogsOutOnNothing(e) == FALSE

\* lines 82-84: what the except clause around refresh and retry does with the
\* exception e: TRUE when it calls logout() before raising e
LogsOutOn(e) == TRUE

\* variant: every exception of the first attempt starts the recovery when
\* a refresh token is held
StartsRecoveryOnAnyError(r, rtoken) == r.kind = "exc" /\ Truthy(rtoken)

\* lines 72-74: the first attempt raised an HTTPError with status 401 while
\* a refresh token is held
StartsRecovery(r, rtoken) ==
    r.kind = "exc" /\ IsHTTPError(r.err) /\ WantsRefresh(r.err, rtoken)

\* lines 65-74 and 86: build the headers, send, and either return, raise, or
\* call refresh_access_token()
make_request ==
    /\ At("make_request", "request")
    /\ Sent < MaxExchanges
    /\ LET f == Top
           headers == DictUpdate(f.headers, GetHeaders(access_token))
       IN  /\ Send(f.method, f.ep, headers, f.body)
           /\ \E resp \in Answers(f.ep) :
                LET r == HandleResponse(resp, f.ep, 1)
                    f1 == [f EXCEPT !.headers = headers, !.first = resp,
                                    !.held = Truthy(refresh_token)]
                IN  IF StartsRecovery(r, refresh_token)
                    THEN /\ stack' = Call([f1 EXCEPT !.pc = "refreshed", !.err = r.err],
                                          Frame("refresh_access_token", "check",
                                                "POST", "refresh"))
                         /\ ret' = NoRet
                         /\ UNCHANGED op
                    ELSE Return(f1, r) /\ Noting(r)
    /\ UNCHANGED <<access_token, refresh_token, user>>
    /\ UNCHANGED server

\* lines 77 and 82-84: refresh_access_token() raised; logout() is called
make_request_refresh_failed ==
    /\ At("make_request", "refreshed")
    /\ ret.kind = "exc"
    /\ LET f1 == [Top EXCEPT !.called = "exc", !.calledErr = ret.err, !.err = ret.err]
       IN  IF LogsOutOn(ret.err)
           THEN /\ stack' = Call([f1 EXCEPT !.pc = "raise"],
                                 Frame("logout", "check", "POST", "logout"))
                /\ ret' = NoRet
                /\ UNCHANGED op
           ELSE Return(f1, Raised(ret.err)) /\ Noting(Raised(ret.err))
    /\ UNCHANGED <<access_token, refresh_token, user, cnt, lastReq>>
    /\ UNCHANGED server

\* variant: a 401 answer to the request sent again starts the recovery again
make_request_retry_again ==
    /\ At("make_request", "refreshed")
    /\ ret.kind = "ok"
    /\ Sent < MaxExchanges
    /\ LET f == Top
           headers == RetryHeaders(f.headers, access_token)
       IN  /\ Send(f.method, f.ep, headers, f.body)
           /\ \E resp \in Answers(f.ep) :
                LET r == HandleResponse(resp, f.ep, 2)
                    f1 == [f EXCEPT !.headers = headers, !.retry = resp,
                                    !.called = "ok", !.calledPayload = ret.payload]
                IN  IF r.kind = "exc" /\ IsHTTPError(r.err)
                                      /\ WantsRefresh(r.err, refresh_token)
                    THEN /\ stack' = Call(f1, Frame("refresh_access_token", "check",
                                                    "POST", "refresh"))
                         /\ ret' = NoRet
                    ELSE IF r.kind = "exc"
                    THEN /\ stack' = Call([f1 EXCEPT !.pc = "raise", !.err = r.err],
                                          Frame("logout", "check", "POST", "logout"))
                         /\ ret' = NoRet
                    ELSE Return(f1, r)
    /\ UNCHANGED <<access_token, refresh_token, user, op>>
    /\ UNCHANGED server

\* lines 77-84: refresh_access_token() returned; the request is sent again
\* and its result returned, or logout() is called on its failure
make_request_retry ==
    /\ At("make_request", "refreshed")
    /\ ret.kind = "ok"
    /\ Sent < MaxExchanges
    /\ LET f == Top
           headers == RetryHeaders(f.headers, access_token)
       IN  /\ Send(f.method, f.ep, headers, f.body)
           /\ \E resp \in Answers(f.ep) :
                LET r == HandleResponse(resp, f.ep, 2)
                    f1 == [f EXCEPT !.headers = headers, !.retry = resp,
                                    !.called = "ok", !.calledPayload = ret.payload]
                IN  IF r.kind = "exc" /\ LogsOutOn(r.err)
                    THEN /\ stack' = Call([f1 EXCEPT !.pc = "raise", !.err = r.err],
                                          Frame("logout", "check", "POST", "logout"))
                         /\ ret' = NoRet
                         /\ UNCHANGED op
                    ELSE Return(f1, r) /\ Noting(r)
    /\ UNCHANGED <<access_token, refresh_token, user>>
    /\ UNCHANGED server

\* line 85: logout() returned; the exception caught at line 82 is raised
make_request_raise ==
    /\ At("make_request", "raise")
    /\ Return([Top EXCEPT !.loggedOut = TRUE], Raised(Top.err))
    /\ Noting(Raised(Top.err))
    /\ UNCHANGED <<access_token, refresh_token, user, cnt, lastReq>>
    /\ UNCHANGED server

-----------------------------------------------------------------------------
(* Storing the fields of a response: response['key'] raises KeyError when  *)
(* the key is missing, and the assignments before it have taken effect     *)

\* the session after the assignments `self.<field> = response[<key>]` for the
\* keys in order, stopping at the first missing key
RECURSIVE StoreFields(_, _, _)
StoreFields(s, payload, keys) ==
    IF keys = <<>> THEN s
    ELSE LET k == Head(keys)
         IN  IF payload[k[2]] = Missing THEN s
             ELSE StoreFields([s EXCEPT ![k[1]] = payload[k[2]]], payload, Tail(keys))

\* whether one of the keys is missing from the payload
LacksKey(payload, keys) == \E i \in 1..Len(keys) : payload[keys[i][2]] = Missing

\* variant: login does not store the user record
LoginKeysNoUser == <<<<"access", "accessToken">>, <<"refresh", "refreshToken">>>>

\* variant: the refresh stores the access token only
RefreshKeysAccessOnly == <<<<"access", "accessToken">>>>

RefreshKeys == <<<<"access", "accessToken">>, <<"refresh", "refreshToken">>>>
LoginKeys == <<<<"access", "accessToken">>, <<"refresh", "refreshToken">>,
               <<"user", "user">>>>

SetSession(s) ==
    /\ access_token' = s.access
    /\ refresh_token' = s.refresh
    /\ user' = s.user

\* variant: logout forgets the tokens and keeps the user record
ClearedSessionKeepingUser == [access |-> None, refresh |-> None, user |-> user]

\* lines 137-139
ClearedSession == [access |-> None, refresh |-> None, user |-> None]

-----------------------------------------------------------------------------
(* refresh_access_token *)

\* variant: the request is sent without looking at the refresh token
refresh_access_token_check_unguarded ==
    /\ At("refresh_access_token", "check")
    /\ stack' = Call([Top EXCEPT !.pc = "store"],
                     MakeRequestFrame("POST", "refresh", refresh_token))
    /\ ret' = NoRet
    /\ UNCHANGED <<access_token, refresh_token, user, op, cnt, lastReq>>
    /\ UNCHANGED server

\* lines 110-116: no refresh token, no request; else POST /api/auth/refresh
\* with the refresh token held now
refresh_access_token_check ==
    /\ At("refresh_access_token", "check")
    /\ IF ~Truthy(refresh_token)
       THEN /\ Return(Top, Raised(Err("ValueError", 0, "none", 0)))
            /\ op' = [op EXCEPT !.refreshFailed = TRUE]
       ELSE /\ stack' = Call([Top EXCEPT !.pc = "store"],
                             MakeRequestFrame("POST", "refresh", refresh_token))
            /\ ret' = NoRet
            /\ UNCHANGED op
    /\ UNCHANGED <<access_token, refresh_token, user, cnt, lastReq>>
    /\ UNCHANGED server

\* lines 118-125: store the new pair and return, or raise what was raised
refresh_access_token_store ==
    /\ At("refresh_access_token", "store")
    /\ LET f == [Top EXCEPT !.called = ret.kind, !.calledErr = ret.err,
                            !.calledPayload = ret.payload]
           r == IF ret.kind = "exc" THEN Raised(ret.err)
                ELSE IF LacksKey(ret.payload, RefreshKeys)
                     THEN Raised(Err("KeyError", 0, "refresh", 0))
                     ELSE Returned(ret.payload)
       IN  /\ IF ret.kind = "exc"
              THEN UNCHANGED <<access_token, refresh_token, user>>
              ELSE SetSession(StoreFields(Session, ret.payload, RefreshKeys))
           /\ Return(f, r)
           /\ op' = [op EXCEPT !.refreshFailed = @ \/ r.kind = "exc"]
    /\ UNCHANGED <<cnt, lastReq>>
    /\ UNCHANGED server

-----------------------------------------------------------------------------
(* login *)

\* line 93: POST /api/auth/login
login_request ==
    /\ At("login", "request")
    /\ stack' = Call([Top EXCEPT !.pc = "store"], MakeRequestFrame("POST", "login", None))
    /\ ret' = NoRet
    /\ UNCHANGED <<access_token, refresh_token, user, op, cnt, lastReq>>
    /\ UNCHANGED server

\* lines 98-106: store tokens and user, log the user's name, return; or
\* raise what was raised
login_store ==
    /\ At("login", "store")
    /\ LET f == [Top EXCEPT !.called = ret.kind, !.calledErr = ret.err,
                            !.calledPayload = ret.payload]
       IN  IF ret.kind = "exc"
           THEN /\ Return(f, Raised(ret.err))
                /\ UNCHANGED <<access_token, refresh_token, user>>
           ELSE /\ SetSession(StoreFields(Session, ret.payload, LoginKeys))
                /\ IF \/ LacksKey(ret.payload, LoginKeys)
                      \/ ret.payload.user \in UsersWithoutName
                   THEN Return(f, Raised(Err("KeyError", 0, "login", 0)))
                   ELSE Return(f, Returned(ret.payload))
    /\ UNCHANGED <<op, cnt, lastReq>>
    /\ UNCHANGED server

-----------------------------------------------------------------------------
(* logout *)

\* variant: with no refresh token held logout() returns at once
logout_check_returning_early ==
    /\ At("logout", "check")
    /\ IF Truthy(refresh_token)
       THEN /\ stack' = Call([Top EXCEPT !.pc = "finally"],
                             MakeRequestFrame("POST", "logout", refresh_token))
            /\ ret' = NoRet
       ELSE Return(Top, Returned(EmptyPayload))
    /\ UNCHANGED <<access_token, refresh_token, user, op, cnt, lastReq, server>>

\* lines 129-133, and 136-140 when no request is made
logout_check ==
    /\ At("logout", "check")
    /\ IF Truthy(refresh_token)
       THEN /\ stack' = Call([Top EXCEPT !.pc = "finally"],
                             MakeRequestFrame("POST", "logout", refresh_token))
            /\ ret' = NoRet
            /\ UNCHANGED <<access_token, refresh_token, user>>
       ELSE /\ SetSession(ClearedSession)
            /\ Return(Top, Returned(EmptyPayload))
    /\ UNCHANGED <<op, cnt, lastReq>>
    /\ UNCHANGED server

\* variant: the session is cleared after the notification instead of in a
\* finally block, and a failed notification is raised
logout_clear_on_success ==
    /\ At("logout", "finally")
    /\ LET f == [Top EXCEPT !.called = ret.kind, !.calledErr = ret.err]
       IN  IF ret.kind = "exc"
           THEN /\ Return(f, Raised(ret.err))
                /\ UNCHANGED <<access_token, refresh_token, user>>
           ELSE /\ SetSession(ClearedSession)
                /\ Return(f, Returned(EmptyPayload))
    /\ UNCHANGED <<op, cnt, lastReq>>
    /\ UNCHANGED server

\* lines 134-140: whatever _make_request did, clear the session and return
logout_finally ==
    /\ At("logout", "finally")
    /\ SetSession(ClearedSession)
    /\ Return([Top EXCEPT !.called = ret.kind, !.calledErr = ret.err],
              Returned(EmptyPayload))
    /\ UNCHANGED <<op, cnt, lastReq>>
    /\ UNCHANGED server

-----------------------------------------------------------------------------
(* upload_file *)

upload_file_call ==
    /\ Begin("upload_file")
    /\ stack' = <<Frame("upload_file", "request", "POST", "upload")>>
    /\ UNCHANGED <<access_token, refresh_token, user>>

\* lines 174-176: the headers of the upload
UploadHeaders(token) == DictDel(GetHeaders(token), "Content-Type")

\* lines 168-183: open the file, post it with self.session.post and hand the
\* response to _handle_response; whatever is raised is raised to the caller
upload_file_request ==
    /\ At("upload_file", "request")
    /\ \/ /\ Return(Top, Raised(Err("FileNotFoundError", 0, "none", 0)))
          /\ UNCHANGED <<cnt, lastReq, op>>
       \/ /\ Sent < MaxExchanges
          /\ LET headers == UploadHeaders(access_token)
             IN  /\ Send("POST", "upload", headers, None)
                 /\ \E resp \in Answers("upload") :
                        /\ Return([Top EXCEPT !.headers = headers, !.first = resp,
                                              !.held = Truthy(refresh_token)],
                                  HandleResponse(resp, "upload", 1))
                        /\ Noting(HandleResponse(resp, "upload", 1))
    /\ UNCHANGED <<access_token, refresh_token, user>>
    /\ UNCHANGED server

-----------------------------------------------------------------------------
(* TouristWorkflow.register_for_tour (tourist_workflow.py); self.client is *)
(* the client above                                                        *)

register_for_tour_call ==
    /\ Begin("register_for_tour")
    /\ stack' = <<Frame("register_for_tour", "fetch", "none", "none")>>
    /\ UNCHANGED <<access_token, refresh_token, user>>

\* line 105: self.client.get of the tour event
register_for_tour_fetch ==
    /\ At("register_for_tour", "fetch")
    /\ stack' = Call([Top EXCEPT !.pc = "check"], MakeRequestFrame("GET", "event", None))
    /\ ret' = NoRet
    /\ UNCHANGED <<access_token, refresh_token, user, op, cnt, lastReq>>
    /\ UNCHANGED server

\* variant: the status of the tour event is not looked at
BookableWhateverStatus(event) == event.remainingTourists > 0

\* lines 109-113: places are left and the event is active
Bookable(event) == event.remainingTourists > 0 /\ event.status = "Active"

\* lines 106-116 and 125-127: raise what the fetch raised, KeyError for an
\* event without its keys, ValueError for an event that cannot be booked;
\* else self.client.post of the registration
register_for_tour_check ==
    /\ At("register_for_tour", "check")
    /\ LET f == [Top EXCEPT !.called = ret.kind, !.calledErr = ret.err,
                            !.calledPayload = ret.payload]
       IN  IF ret.kind = "exc" THEN Return(f, Raised(ret.err))
           ELSE IF ret.payload.status = Missing
           THEN Return(f, Raised(Err("KeyError", 0, "event", 0)))
           ELSE IF ~Bookable(ret.payload)
           THEN Return(f, Raised(Err("ValueError", 0, "event", 0)))
           ELSE /\ stack' = Call([f EXCEPT !.pc = "registered"],
                                 MakeRequestFrame("POST", "register", None))
                /\ ret' = NoRet
    /\ UNCHANGED <<access_token, refresh_token, user, op, cnt, lastReq>>
    /\ UNCHANGED server

\* lines 118-127: return the registration, or raise what the post raised
\* (KeyError for a registration without status)
register_for_tour_registered ==
    /\ At("register_for_tour", "registered")
    /\ Return(Top, IF ret.kind = "exc" THEN Raised(ret.err)
                   ELSE IF ret.payload.status = Missing
                        THEN Raised(Err("KeyError", 0, "register", 0))
                        ELSE Returned(ret.payload))
    /\ UNCHANGED <<access_token, refresh_token, user, op, cnt, lastReq>>
    /\ UNCHANGED server

-----------------------------------------------------------------------------
(* TouristWorkflow.register_and_setup_profile (tourist_workflow.py);       *)
(* registration_data holds emailAddress and password                       *)

register_and_setup_profile_call ==
    /\ Begin("register_and_setup_profile")
    /\ stack' = <<Frame("register_and_setup_profile", "register", "none", "none")>>
    /\ UNCHANGED <<access_token, refresh_token, user>>

\* lines 30-33: self.client.post of the new account
register_and_setup_profile_register ==
    /\ At("register_and_setup_profile", "register")
    /\ stack' = Call([Top EXCEPT !.pc = "login"], MakeRequestFrame("POST", "signup", None))
    /\ ret' = NoRet
    /\ UNCHANGED <<access_token, refresh_token, user, op, cnt, lastReq, server>>

\* lines 34-38 and 55-57: raise what the post raised, else self.client.login
register_and_setup_profile_login ==
    /\ At("register_and_setup_profile", "login")
    /\ IF ret.kind = "exc"
       THEN Return(Top, Raised(ret.err))
       ELSE /\ stack' = Call([Top EXCEPT !.pc = "update", !.done = Append(@, "register")],
                             Frame("login", "request", "POST", "login"))
            /\ ret' = NoRet
    /\ UNCHANGED <<access_token, refresh_token, user, op, cnt, lastReq, server>>

\* the step after login() with the except clause of login's failure logging
\* it and going on: variant of register_and_setup_profile_update
register_and_setup_profile_update_anyway ==
    /\ At("register_and_setup_profile", "update")
    /\ LET f == [Top EXCEPT !.called = ret.kind, !.calledErr = ret.err,
                            !.calledPayload = ret.payload]
       IN  IF user = None
           THEN Return(f, Raised(Err("TypeError", 0, "none", 0)))
           ELSE /\ stack' = Call([f EXCEPT !.pc = "return"],
                                 [MakeRequestFrame("PUT", "profile", None)
                                    EXCEPT !.path = user])
                /\ ret' = NoRet
    /\ UNCHANGED <<access_token, refresh_token, user, op, cnt, lastReq, server>>

\* lines 40-50 and 55-57: raise what login() raised; else self.client.put to
\* /api/users/<self.client.user['userId']> (TypeError when self.client.user
\* is None)
register_and_setup_profile_update ==
    /\ At("register_and_setup_profile", "update")
    /\ LET f == [Top EXCEPT !.called = ret.kind, !.calledErr = ret.err,
                            !.calledPayload = ret.payload]
       IN  IF ret.kind = "exc"
           THEN Return(f, Raised(ret.err))
           ELSE IF user = None
           THEN Return(f, Raised(Err("TypeError", 0, "none", 0)))
           ELSE /\ stack' = Call([f EXCEPT !.pc = "return", !.done = Append(@, "login")],
                                 [MakeRequestFrame("PUT", "profile", None)
                                    EXCEPT !.path = user])
                /\ ret' = NoRet
    /\ UNCHANGED <<access_token, refresh_token, user, op, cnt, lastReq, server>>

\* lines 50-57: return the updated user, or raise what the put raised
register_and_setup_profile_return ==
    /\ At("register_and_setup_profile", "return")
    /\ IF ret.kind = "exc"
       THEN Return(Top, Raised(ret.err))
       ELSE Return([Top EXCEPT !.done = Append(@, "update")], Returned(ret.payload))
    /\ UNCHANGED <<access_token, refresh_token, user, op, cnt, lastReq, server>>

-----------------------------------------------------------------------------
(* ProviderAdminWorkflow.bulk_approve_registrations and handle_registration *)
(* (provider_admin_workflow.py)                                             *)

UserIds == {"U1", "U2"}
\* the user ids are opaque to the code, which only passes them on: one list of
\* each length, with distinct neighbours and, from length 3 on, a repeated id
UserIdLists ==
    {[i \in 1..n |-> IF i % 2 = 1 THEN "U1" ELSE "U2"] : n \in 0..MaxBulk}

bulk_approve_registrations_call ==
    /\ \E ids \in UserIdLists :
          stack' = <<[Frame("bulk_approve_registrations", "loop", "none", "none")
                        EXCEPT !.todo = ids]>>
    /\ Begin("bulk_approve_registrations")
    /\ UNCHANGED <<access_token, refresh_token, user>>

\* the user id the loop of the frame f is at: todo is user_ids, and one
\* entry of results is appended per user id gone through
Current(f) == f.todo[Len(f.results) + 1]

\* lines 262-264 and 269-274: approve the next user id, or return the results
bulk_approve_registrations_loop ==
    /\ At("bulk_approve_registrations", "loop")
    /\ IF Len(Top.results) = Len(Top.todo)
       THEN Return(Top, Returned(EmptyPayload))
       ELSE /\ stack' = Call([Top EXCEPT !.pc = "collect"],
                             [Frame("handle_registration", "request", "PUT",
                                    "registration") EXCEPT !.todo = <<Current(Top)>>])
            /\ ret' = NoRet
    /\ UNCHANGED <<access_token, refresh_token, user, op, cnt, lastReq>>
    /\ UNCHANGED server

\* what became of the call of handle_registration that just returned: the
\* user id its request was addressed to and whether that request succeeded
Attempt == [userId |-> ret.fr.path, success |-> ret.fr.called = "ok"]

\* variant: the loop ends at the first approval that fails
bulk_approve_registrations_collect_stopping ==
    /\ At("bulk_approve_registrations", "collect")
    /\ LET f == [Top EXCEPT !.pc = "loop",
                            !.results = Append(@, [userId |-> Current(Top),
                                                   success |-> ret.kind = "ok"]),
                            !.attempts = Append(@, Attempt)]
       IN  IF ret.kind = "exc"
           THEN Return(f, Returned(EmptyPayload))
           ELSE stack' = Append(Caller, f) /\ ret' = NoRet
    /\ UNCHANGED <<access_token, refresh_token, user, op, cnt, lastReq>>
    /\ UNCHANGED server

\* lines 265-267: one entry per user id, success or not
bulk_approve_registrations_collect ==
    /\ At("bulk_approve_registrations", "collect")
    /\ stack' = Append(Caller,
                       [Top EXCEPT !.pc = "loop",
                                   !.results = Append(@, [userId |-> Current(Top),
                                                          success |-> ret.kind = "ok"]),
                                   !.attempts = Append(@, Attempt)])
    /\ ret' = NoRet
    /\ UNCHANGED <<access_token, refresh_token, user, op, cnt, lastReq>>
    /\ UNCHANGED server

\* lines 106-114: self.client.put of the registration of user_id
handle_registration_request ==
    /\ At("handle_registration", "request")
    /\ stack' = Call([Top EXCEPT !.pc = "done"],
                     [MakeRequestFrame("PUT", "registration", None)
                        EXCEPT !.path = Top.todo[1]])
    /\ ret' = NoRet
    /\ UNCHANGED <<access_token, refresh_token, user, op, cnt, lastReq>>
    /\ UNCHANGED server

\* variant: a failed request is logged and an empty result returned
handle_registration_done_swallowing ==
    /\ At("handle_registration", "done")
    /\ Return([Top EXCEPT !.called = ret.kind, !.path = ret.fr.path],
              Returned(ret.payload))
    /\ UNCHANGED <<access_token, refresh_token, user, op, cnt, lastReq>>
    /\ UNCHANGED server

\* lines 116-123: return the result, or raise what the put raised
handle_registration_done ==
    /\ At("handle_registration", "done")
    /\ Return([Top EXCEPT !.called = ret.kind, !.path = ret.fr.path],
              IF ret.kind = "exc" THEN Raised(ret.err) ELSE Returned(ret.payload))
    /\ UNCHANGED <<access_token, refresh_token, user, op, cnt, lastReq>>
    /\ UNCHANGED server

-----------------------------------------------------------------------------
(* ProviderAdminWorkflow.create_tour_schedule (provider_admin_workflow.py) *)

\* an activity is a dict of the caller: id names it, and dated says whether
\* it has the keys 'activityType' and 'activityDate'; every activity has the
\* key 'description'
Activity(i, dated) == [id |-> IF i % 2 = 1 THEN "V1" ELSE "V2", dated |-> dated]

\* the lists given to create_tour_schedule: of each length, the list whose
\* activities all have their keys and the lists with one activity without
ActivityLists ==
    {[i \in 1..n |-> Activity(i, i # k)] : n \in 0..MaxActivities, k \in 0..MaxActivities}

create_tour_schedule_call ==
    /\ \E activities \in ActivityLists :
          stack' = <<[Frame("create_tour_schedule", "loop", "none", "none")
                        EXCEPT !.todo = activities]>>
    /\ Begin("create_tour_schedule")
    /\ UNCHANGED <<access_token, refresh_token, user>>

\* lines 132-135 and 140-144: return the created activities after the last
\* one; else self.client.post the next activity
create_tour_schedule_loop ==
    /\ At("create_tour_schedule", "loop")
    /\ IF Len(Top.results) = Len(Top.todo)
       THEN Return(Top, Returned(EmptyPayload))
       ELSE /\ stack' = Call([Top EXCEPT !.pc = "created"],
                             MakeRequestFrame("POST", "activity", Current(Top).id))
            /\ ret' = NoRet
    /\ UNCHANGED <<access_token, refresh_token, user, op, cnt, lastReq, server>>

\* lines 135-138 and 142-144: raise what the post raised; else append the
\* created activity, log activityType and activityDate of the activity
\* (KeyError without them) and go on
create_tour_schedule_created ==
    /\ At("create_tour_schedule", "created")
    /\ LET posted == [Top EXCEPT !.attempts = Append(@, [activity |-> ret.fr.body,
                                                         success |-> ret.kind = "ok"])]
           f == [posted EXCEPT !.pc = "loop",
                               !.results = Append(@, [activity |-> Current(Top).id])]
       IN  IF ret.kind = "exc"
           THEN Return(posted, Raised(ret.err))
           ELSE IF ~Current(Top).dated
           THEN Return(f, Raised(Err("KeyError", 0, "none", 0)))
           ELSE stack' = Append(Caller, f) /\ ret' = NoRet
    /\ UNCHANGED <<access_token, refresh_token, user, op, cnt, lastReq, server>>

-----------------------------------------------------------------------------
(* Queries *)

\* variant: the client counts as authenticated when a user record is held
is_authenticated_by_user == user # None

\* line 144
is_authenticated == access_token # None
\* line 148
get_current_user == user

\* a Python bool as it prints
PyBool(b) == IF b THEN "True" ELSE "False"

\* a method that returns value at once: no call, no request, no assignment
Query(name, value) ==
    /\ Idle
    /\ op' = [name |-> name, pre |-> Session, refreshFailed |-> FALSE,
              requestFailed |-> FALSE]
    /\ cnt' = [e \in Endpoints |-> 0]
    /\ lastReq' = NoReq
    /\ ret' = [kind |-> "ok", payload |-> [EmptyPayload EXCEPT !.data = value],
               err |-> NoErr, fr |-> Frame(name, "return", "none", "none")]
    /\ UNCHANGED <<access_token, refresh_token, user, stack>>
    /\ UNCHANGED server

\* lines 142-144
is_authenticated_call == Query("is_authenticated", PyBool(is_authenticated))
\* lines 146-148
get_current_user_call == Query("get_current_user", get_current_user)

-----------------------------------------------------------------------------

Next ==
    \/ get
    \/ post
    \/ put
    \/ delete
    \/ login_call
    \/ refresh_access_token_call
    \/ logout_call
    \/ make_request
    \/ make_request_refresh_failed
    \/ make_request_retry
    \/ make_request_raise
    \/ refresh_access_token_check
    \/ refresh_access_token_store
    \/ login_request
    \/ login_store
    \/ logout_check
    \/ logout_finally
    \/ register_for_tour_call
    \/ register_for_tour_fetch
    \/ register_for_tour_check
    \/ register_for_tour_registered
    \/ bulk_approve_registrations_call
    \/ bulk_approve_registrations_loop
    \/ bulk_approve_registrations_collect
    \/ handle_registration_request
    \/ handle_registration_done
    \/ upload_file_call
    \/ upload_file_request
    \/ is_authenticated_call
    \/ get_current_user_call

Spec == Init /\ [][Next]_vars

\* a fresh client facing a server whose success responses carry every
\* documented field
InitDocumented ==
    /\ access_token = None
    /\ refresh_token = None
    /\ user = None
    /\ stack = <<>>
    /\ ret = NoRet
    /\ op = [name |-> "none", pre |-> ClearedSession,
             refreshFailed |-> FALSE, requestFailed |-> FALSE]
    /\ cnt = [e \in Endpoints |-> 0]
    /\ lastReq = NoReq
    /\ server = "documented"

DocumentedSpec == InitDocumented /\ [][Next]_vars

\* the workflows that are sequences of steps, on a client of their own
WorkflowNext ==
    \/ register_and_setup_profile_call
    \/ register_and_setup_profile_register
    \/ register_and_setup_profile_login
    \/ register_and_setup_profile_update
    \/ register_and_setup_profile_return
    \/ create_tour_schedule_call
    \/ create_tour_schedule_loop
    \/ create_tour_schedule_created
    \/ make_request
    \/ make_request_refresh_failed
    \/ make_request_retry
    \/ make_request_raise
    \/ refresh_access_token_check
    \/ refresh_access_token_store
    \/ login_request
    \/ login_store
    \/ logout_check
    \/ logout_finally

WorkflowSpec == Init /\ [][WorkflowNext]_vars

-----------------------------------------------------------------------------
(* Vocabulary of the properties *)

Verbs == {"get", "post", "put", "delete"}

\* a public operation has finished; ret holds its outcome and, in ret.fr,
\* the final form of its outermost frame
Done == Idle /\ ret.kind # "none"
VerbDone == Done /\ op.name \in Verbs

\* the exception of the first answer of a verb call when that answer is 401
Original401 == Err("HTTPError", Unauthorized, "resource", 1)

\* a finished verb call whose first answer was 401 with a refresh token held
Expired == VerbDone /\ ret.fr.first.status = Unauthorized /\ ret.fr.held

Outcome == [kind |-> ret.kind, payload |-> ret.payload, err |-> ret.err]

NoSession == access_token = None /\ refresh_token = None /\ user = None

-----------------------------------------------------------------------------
(* Properties of _make_request *)

\* C1: a verb call whose first answer is 401 while a refresh token is held
\* and whose refresh succeeds sends the original request exactly twice, the
\* second time with the Authorization header of the newly issued access
\* token, returns the outcome of the second send, and ends with the newly
\* issued pair of tokens stored.
C1_RetryOnceWithNewTokensKept ==
    Expired /\ ret.fr.called = "ok" =>
        /\ cnt["resource"] = 2
        /\ ret.fr.headers = GetHeaders(ret.fr.calledPayload.accessToken)
        /\ Outcome = HandleResponse(ret.fr.retry, "resource", 2)
        /\ access_token = ret.fr.calledPayload.accessToken
        /\ refresh_token = ret.fr.calledPayload.refreshToken

\* C2: during one verb call the refresh endpoint is contacted at most once,
\* whatever the server answers.
C2_RefreshContactedAtMostOnce ==
    op.name \in Verbs => cnt["refresh"] <= 1

\* C3: during one verb call the original request is sent at most twice, and
\* when the request sent again after a successful refresh is answered 401,
\* it has been sent exactly twice and the call ends raising that 401.
C3_AtMostOneRetry ==
    /\ op.name \in Verbs => cnt["resource"] <= 2
    /\ Expired /\ ret.fr.called = "ok" /\ ret.fr.retry.status = Unauthorized =>
            /\ cnt["resource"] = 2
            /\ Outcome = Raised(Err("HTTPError", Unauthorized, "resource", 2))

C3_Witness ==
    Expired /\ ret.fr.called = "ok" /\ ret.fr.retry.status = Unauthorized

\* C4: a verb call whose first answer is 401 while a refresh token is held
\* and whose refresh_access_token() raises ends with access token, refresh
\* token and user all None, and raises the exception of the refresh, which
\* comes from the refresh endpoint and is not the 401 of the first answer.
C4_FailedRefreshClearsSession ==
    Expired /\ ret.fr.called = "exc" =>
        /\ NoSession
        /\ Outcome = Raised(ret.fr.calledErr)
        /\ ret.err.ep = "refresh"
        /\ ret.err # Original401

C4_Witness ==
    /\ Expired /\ ret.fr.called = "exc"
    /\ op.pre.access # None /\ op.pre.user # None

C6_NoRefreshTokenFailsAtOnce ==
    /\ ret.fr.fn = "make_request" /\ ret.fr.first.status = Unauthorized
                                  /\ ~ret.fr.held =>
            /\ Outcome = Raised(Err("HTTPError", Unauthorized, ret.fr.ep, 1))
            /\ ret.fr.called = "none"
            /\ ret.fr.retry = NoResp
            /\ ~ret.fr.loggedOut
    /\ VerbDone /\ ret.fr.first.status = Unauthorized /\ ~ret.fr.held => Sent = 1

C6_Witness ==
    VerbDone /\ ret.fr.first.status = Unauthorized /\ ~ret.fr.held

\* C7: an operation that begins with an access token held and ends with
\* none is a logout() of the caller or one in which a token refresh failed.
C7_OnlyLogoutOrFailedRefreshClears ==
    Done /\ op.pre.access # None /\ access_token = None =>
        op.name = "logout" \/ op.refreshFailed

-----------------------------------------------------------------------------
(* Properties of login and logout *)

\* C8: a login() that raises leaves access token, refresh token and user as
\* they were before the call, and raises an exception of the login request.
C8_FailedLoginKeepsSession ==
    Done /\ op.name = "login" /\ ret.kind = "exc" =>
        /\ Session = op.pre
        /\ ret.err.ep = "login"

\* C9: a login() that returns has stored the accessToken, refreshToken and
\* user of the login response in place of what was held, returns that
\* response, is_authenticated() is true and get_current_user() is that user.
C9_LoginStoresResponse ==
    Done /\ op.name = "login" /\ ret.kind = "ok" =>
        LET p == ret.fr.calledPayload
        IN  /\ p.accessToken \in AccessTokens
            /\ p.refreshToken \in RefreshTokens
            /\ p.user \in Users
            /\ ret.payload = p
            /\ access_token = p.accessToken
            /\ refresh_token = p.refreshToken
            /\ user = p.user
            /\ is_authenticated
            /\ get_current_user = p.user

C9_Witness ==
    /\ Done /\ op.name = "login" /\ ret.kind = "ok"
    /\ op.pre.access \notin {None, access_token}
    /\ op.pre.refresh \notin {None, refresh_token}
    /\ op.pre.user \notin {None, user}

\* C10: every logout(), called by the caller or by _make_request, returns
\* without raising and leaves access token, refresh token and user None,
\* whatever became of the notification of the server.
C10_LogoutNeverRaisesAndClears ==
    ret.fr.fn = "logout" => ret.kind = "ok" /\ NoSession

C10_Witness ==
    /\ Done /\ op.name = "logout"
    /\ ret.fr.called = "exc" /\ ret.fr.calledErr.type = "ConnectionError"
    /\ op.pre.access # None /\ op.pre.user # None

-----------------------------------------------------------------------------
(* Properties of refresh_access_token, is_authenticated and the headers *)

\* C11: refresh_access_token() called by the caller with no refresh token
\* held raises ValueError, sends nothing and leaves the session as it was;
\* when it returns, access token and refresh token are the pair of the
\* response it returns.
C11_RefreshNeedsTokenAndStoresPair ==
    Done /\ op.name = "refresh_access_token" =>
        /\ op.pre.refresh = None =>
                /\ Outcome = Raised(Err("ValueError", 0, "none", 0))
                /\ Sent = 0
                /\ Session = op.pre
        /\ ret.kind = "ok" =>
                /\ op.pre.refresh # None
                /\ ret.payload = ret.fr.calledPayload
                /\ ret.payload.accessToken \in AccessTokens
                /\ ret.payload.refreshToken \in RefreshTokens
                /\ access_token = ret.payload.accessToken
                /\ refresh_token = ret.payload.refreshToken

C11_Witness ==
    /\ Done /\ op.name = "refresh_access_token" /\ ret.kind = "ok"
    /\ op.pre.access \notin {None, access_token}
    /\ op.pre.refresh \notin {None, refresh_token}

\* C12: every request sent to the refresh endpoint is sent while a refresh
\* token is held.
C12_RefreshOnlyWithToken ==
    lastReq.ep = "refresh" => lastReq.refresh # None

C12_Witness ==
    lastReq.ep = "refresh" /\ cnt["refresh"] = 2

\* C13: is_authenticated() returns True exactly when an access token is held,
\* sends no request and leaves the session as it was.
C13_IsAuthenticatedReadsAccessToken ==
    Done /\ op.name = "is_authenticated" =>
        /\ ret.payload.data = PyBool(access_token # None)
        /\ Sent = 0
        /\ lastReq = NoReq
        /\ Session = op.pre

C13_Witness ==
    Done /\ op.name = "is_authenticated" /\ access_token # None /\ user = None

C15_TransportFailureIsTerminal ==
    VerbDone /\ ret.fr.first.t = "transport" =>
        /\ Outcome = Raised(Err("ConnectionError", 0, "resource", 1))
        /\ Sent = 1
        /\ cnt["resource"] = 1
        /\ ret.fr.called = "none"
        /\ ~ret.fr.loggedOut
        /\ Session = op.pre

C15_Witness ==
    VerbDone /\ ret.fr.first.t = "transport" /\ op.pre.refresh # None

\* C20: a verb call whose first answer is not 401 (a success, another error
\* status, an undecodable body or no response) has sent exactly one request
\* and leaves access token, refresh token and user as they were.
C20_No401OneRequestSessionKept ==
    VerbDone /\ ret.fr.first.status # Unauthorized =>
        /\ Sent = 1
        /\ cnt["resource"] = 1
        /\ Session = op.pre

C20_Witness ==
    /\ VerbDone /\ ret.fr.first.status = 200 /\ ret.kind = "ok"
    /\ op.pre.access # None /\ op.pre.refresh # None

-----------------------------------------------------------------------------
(* Properties of upload_file *)

\* C16: an upload_file call answered 401 while a refresh token is held
\* starts the refresh-and-retry recovery of the verb calls: the refresh
\* endpoint is contacted and the upload is sent again or the refresh failed.
C16_UploadRecoversFrom401 ==
    Done /\ op.name = "upload_file" /\ ret.fr.first.status = Unauthorized
         /\ ret.fr.held =>
        /\ cnt["refresh"] >= 1
        /\ cnt["upload"] = 2 \/ op.refreshFailed

\* C17: the headers that go out with the request of upload_file, the
\* defaults of the session overlaid by the headers of the call, have no
\* Content-Type: application/json.
C17_UploadWithoutJsonContentType ==
    lastReq.ep = "upload" =>
        \/ "Content-Type" \notin DOMAIN lastReq.effective
        \/ lastReq.effective["Content-Type"] # "application/json"

-----------------------------------------------------------------------------
(* Properties of the workflows *)

\* C18 as stated: an operation other than logout() in which a request call
\* of the client raised ends by raising.
C18_EveryRequestFailureRaised ==
    Done /\ op.requestFailed /\ op.name # "logout" => ret.kind = "exc"

\* C18 amended: an operation other than logout() in which a request call of
\* the client raised ends by raising, except bulk_approve_registrations,
\* which returns a list holding an entry with success = false.
C18_RequestFailureRaisedOrReported ==
    Done /\ op.requestFailed /\ op.name # "logout" =>
        IF op.name = "bulk_approve_registrations"
        THEN /\ ret.kind = "ok"
             /\ \E i \in 1..Len(ret.fr.results) : ~ret.fr.results[i].success
        ELSE ret.kind = "exc"

C18_Witness ==
    /\ Done /\ op.requestFailed /\ op.name = "bulk_approve_registrations"
    /\ Len(ret.fr.results) = 2
    /\ ret.fr.results[1].success /\ ~ret.fr.results[2].success

\* the frame of the workflow operation in progress or just finished
Workflow == IF Idle THEN ret.fr ELSE stack[1]

\* C19: the register request is sent only in register_for_tour after the
\* tour event was fetched and reports remainingTourists > 0 and status
\* 'Active'; a register_for_tour whose fetch raised or whose event fails a
\* check raises and has sent no register request.
C19_RegisterOnlyIfBookable ==
    /\ cnt["register"] > 0 =>
            /\ op.name = "register_for_tour"
            /\ cnt["event"] > 0
            /\ Workflow.fn = "register_for_tour"
            /\ Workflow.called = "ok"
            /\ Workflow.calledPayload.remainingTourists > 0
            /\ Workflow.calledPayload.status = "Active"
    /\ Done /\ op.name = "register_for_tour"
            /\ (\/ ret.fr.called = "exc"
                \/ ret.fr.calledPayload.remainingTourists <= 0
                \/ ret.fr.calledPayload.status # "Active") =>
            /\ ret.kind = "exc"
            /\ cnt["register"] = 0

C19_Witness ==
    /\ Done /\ op.name = "register_for_tour"
    /\ ret.fr.called = "ok"
    /\ ret.fr.calledPayload.remainingTourists > 0
    /\ ret.fr.calledPayload.status = "Cancelled"


-----------------------------------------------------------------------------
(* Properties of the refresh token in request bodies *)

\* the requests whose body is {'refreshToken': ...}
CarriesRefreshToken(req) == req.ep \in {"refresh", "logout"}

\* C21: a request whose body carries a refresh token (the refresh exchange,
\* the logout notification, and their sends after a 401-triggered refresh)
\* carries the refresh token the session holds when it is sent.
C21_BodyCarriesHeldRefreshToken ==
    CarriesRefreshToken(lastReq) => lastReq.body = lastReq.refresh


-----------------------------------------------------------------------------
(* Termination of logout *)

\* the step the innermost frame takes next sends a request
AboutToSend ==
    \/ At("make_request", "request")
    \/ At("make_request", "refreshed") /\ ret.kind = "ok"

\* C22: logout() ends after a bounded number of requests whatever the server
\* answers: a logout() that has sent as many requests as are explored sends
\* no further one.
C22_LogoutSendsBoundedRequests ==
    op.name = "logout" /\ Sent >= MaxExchanges => ~AboutToSend


-----------------------------------------------------------------------------
(* The session between operations, under DocumentedSpec *)

AllPresent == access_token # None /\ refresh_token # None /\ user # None

\* C23: with success responses that carry every documented field, between
\* operations the access token, the refresh token and the user are all
\* present or all absent.
C23_SessionAllOrNothing ==
    server = "documented" /\ Idle => AllPresent \/ NoSession

C23_Witness ==
    /\ server = "documented" /\ Done /\ AllPresent
    /\ op.name = "refresh_access_token" /\ ret.kind = "ok"
    /\ op.pre.access # access_token /\ op.pre.refresh # refresh_token


-----------------------------------------------------------------------------
(* logout() with no refresh token held *)

\* the caller's logout() has just returned, and logout() is called again
SecondLogout == Done /\ op.name = "logout" /\ op'.name = "logout" /\ ~Idle'

\* C24: a logout() called with no refresh token held sends no request,
\* returns and leaves the session cleared; a logout() called directly after
\* a logout() starts with the session cleared, hence with no refresh token.
C24_LogoutWithoutTokenSendsNothing ==
    /\ [](op.name = "logout" /\ op.pre.refresh = None =>
            /\ Sent = 0
            /\ Done => ret.kind = "ok" /\ NoSession)
    /\ [][SecondLogout => op'.pre = ClearedSession /\ Session' = Session]_vars

C24_Witness ==
    /\ Done /\ op.name = "logout" /\ Sent = 0
    /\ op.pre.refresh = None /\ op.pre.access # None


-----------------------------------------------------------------------------
(* Properties of register_and_setup_profile, under WorkflowSpec *)

\* C25: register_and_setup_profile sends the login request only after its
\* register request succeeded and the profile update only after its login
\* succeeded; the profile update is addressed to the userId of the user
\* record that login returned and stored; the workflow returns exactly when
\* the three steps succeeded and raises otherwise.
C25_RegisterLoginUpdateInOrder ==
    op.name = "register_and_setup_profile" =>
        /\ cnt["login"] > 0 =>
                /\ cnt["signup"] > 0
                /\ Len(Workflow.done) >= 1 /\ Workflow.done[1] = "register"
        /\ cnt["profile"] > 0 =>
                /\ cnt["login"] > 0
                /\ Len(Workflow.done) >= 2 /\ Workflow.done[2] = "login"
                /\ Workflow.called = "ok"
        /\ lastReq.ep = "profile" =>
                /\ lastReq.path # None
                /\ lastReq.path = Workflow.calledPayload.user
        /\ Done => (ret.kind = "ok" <=> Workflow.done = <<"register", "login", "update">>)
        /\ Done /\ ret.kind # "ok" => ret.kind = "exc"

C25_Witness ==
    /\ Done /\ op.name = "register_and_setup_profile" /\ ret.kind = "ok"
    /\ lastReq.ep = "profile" /\ lastReq.path = user
    /\ op.pre.user \notin {None, user}


-----------------------------------------------------------------------------
(* Properties of bulk_approve_registrations *)

\* C26: bulk_approve_registrations goes through the user ids in input
\* order, one approval request per user id addressed to that user id,
\* whatever became of the ones before; it returns, with one entry per user
\* id in input order, and entry i has success = true exactly when the
\* approval of user id i succeeded.
C26_BulkApprovesEachInOrder ==
    op.name = "bulk_approve_registrations" =>
        /\ Len(Workflow.results) <= Len(Workflow.todo)
        /\ Len(Workflow.attempts) = Len(Workflow.results)
        /\ \A i \in 1..Len(Workflow.results) :
                /\ Workflow.results[i].userId = Workflow.todo[i]
                /\ Workflow.attempts[i].userId = Workflow.todo[i]
                /\ Workflow.results[i].success = Workflow.attempts[i].success
        /\ cnt["registration"] >= Len(Workflow.results)
        /\ Done => ret.kind = "ok" /\ Len(Workflow.results) = Len(Workflow.todo)

C26_Witness ==
    /\ Done /\ op.name = "bulk_approve_registrations"
    /\ Workflow.todo = <<"U1", "U2">>
    /\ ~Workflow.results[1].success /\ Workflow.results[2].success


-----------------------------------------------------------------------------
(* Properties of create_tour_schedule, under WorkflowSpec *)

\* every post made so far succeeded
AllPostsSucceeded ==
    \A i \in 1..Len(Workflow.attempts) : Workflow.attempts[i].success

\* C27: create_tour_schedule posts the activities in input order and posts
\* nothing after a post that fails; it raises when a post failed, and when
\* all posts succeeded it returns the created activities, one per activity
\* of the input, in input order.
C27_StopsAtFirstFailingPost ==
    op.name = "create_tour_schedule" =>
        /\ Len(Workflow.attempts) <= Len(Workflow.todo)
        /\ Len(Workflow.results) <= Len(Workflow.attempts)
        /\ \A i \in 1..Len(Workflow.attempts) :
                /\ Workflow.attempts[i].activity = Workflow.todo[i].id
                /\ i < Len(Workflow.attempts) => Workflow.attempts[i].success
        /\ \A i \in 1..Len(Workflow.results) :
                Workflow.results[i].activity = Workflow.todo[i].id
        /\ Done /\ ~AllPostsSucceeded => ret.kind = "exc"
        /\ Done /\ AllPostsSucceeded =>
                /\ ret.kind = "ok"
                /\ Len(Workflow.results) = Len(Workflow.todo)

====
